---- MODULE Spec2Model ----
(***************************************************************************)
(* The dialogue controller of the healthcare backend (api/routes/chat.py)  *)
(* together with the booking, prescription and reminder operations it      *)
(* calls.  One process-wide conversation_state dictionary, one database.   *)
(* Strings are sequences of one-character strings so that strip(),        *)
(* lower() and int() are computed, not assumed.                            *)
(***************************************************************************)
EXTENDS Integers, Sequences, FiniteSets, TLC

VARIABLES
    conversation_state, \* the module-level dict of chat.py
    time_slots,         \* TimeSlot rows: time_slot_id -> [doctor_id, status]
    appointments,       \* Appointment rows in insertion order
    prescriptions,      \* Prescription rows in insertion order
    reminders,          \* Reminder rows in insertion order
    today,              \* the date pendulum.now() yields
    reminder_call,      \* a direct call of generate_reminder_times
    chosen_by,          \* history: the patients whose turn selected a doctor
    reminder_queue,     \* reminder_queue of crud/chat.py, oldest first
    get_reminders_call, \* the running GET /chat/reminders: [pc, reminders, at_start]
    reminder_log,       \* history: [produced, delivered, last]
    displayed,          \* history: the slots listed by the last doctor selection
    book_calls,         \* the POST /book_appointment calls in flight
    chat_calls          \* the POST /chat turns suspended at an await

vars == <<conversation_state, time_slots, appointments, prescriptions,
          reminders, today, reminder_call, chosen_by, reminder_queue,
          get_reminders_call, reminder_log, displayed, book_calls, chat_calls>>

\* the requests that are served step by step
request_vars == <<book_calls, chat_calls>>

\* the reminder queue and its reader
queue_vars == <<reminder_queue, get_reminders_call, reminder_log>>

(***************************************************************************)
(* Bounds of the model.                                                    *)
(***************************************************************************)
MaxDay == 2
MaxAppointments == 2
MaxPrescriptions == 2
MaxFrequency == 55
MaxReminders == 3
MaxBookCalls == 2
MaxChatCalls == 2

(***************************************************************************)
(* Text: str.strip(), str.lower(), int(str).                               *)
(***************************************************************************)
Whitespace == {" ", "\t", "\n"}

UpperToLower ==
    ("A" :> "a") @@ ("B" :> "b") @@ ("C" :> "c") @@ ("D" :> "d") @@ ("E" :> "e") @@ ("F" :> "f") @@
    ("G" :> "g") @@ ("H" :> "h") @@ ("I" :> "i") @@ ("J" :> "j") @@ ("K" :> "k") @@ ("L" :> "l") @@
    ("M" :> "m") @@ ("N" :> "n") @@ ("O" :> "o") @@ ("P" :> "p") @@ ("Q" :> "q") @@ ("R" :> "r") @@
    ("S" :> "s") @@ ("T" :> "t") @@ ("U" :> "u") @@ ("V" :> "v") @@ ("W" :> "w") @@ ("X" :> "x") @@
    ("Y" :> "y") @@ ("Z" :> "z")

LowerChar(c) == IF c \in DOMAIN UpperToLower THEN UpperToLower[c] ELSE c

lower(s) == [i \in 1..Len(s) |-> LowerChar(s[i])]

RECURSIVE lstrip(_)
lstrip(s) ==
    IF s # <<>> /\ Head(s) \in Whitespace THEN lstrip(Tail(s)) ELSE s

RECURSIVE rstrip(_)
rstrip(s) ==
    IF s # <<>> /\ s[Len(s)] \in Whitespace
    THEN rstrip(SubSeq(s, 1, Len(s) - 1))
    ELSE s

strip(s) == rstrip(lstrip(s))

DigitValue(c) ==
    CASE c = "0" -> 0 [] c = "1" -> 1 [] c = "2" -> 2 [] c = "3" -> 3
      [] c = "4" -> 4 [] c = "5" -> 5 [] c = "6" -> 6 [] c = "7" -> 7
      [] c = "8" -> 8 [] c = "9" -> 9 [] OTHER -> -1

RECURSIVE DigitsValue(_)
DigitsValue(s) ==
    IF s = <<>> THEN 0
    ELSE 10 * DigitsValue(SubSeq(s, 1, Len(s) - 1)) + DigitValue(s[Len(s)])

AllDigits(s) == s # <<>> /\ \A i \in 1..Len(s) : DigitValue(s[i]) >= 0

\* int(s): surrounding whitespace and one sign are accepted; anything else
\* raises ValueError (ok = FALSE).
int(s) ==
    LET t == strip(s)
        signed == t # <<>> /\ Head(t) \in {"+", "-"}
        digits == IF signed THEN Tail(t) ELSE t
    IN  IF AllDigits(digits)
        THEN [ok |-> TRUE,
              value |-> IF signed /\ Head(t) = "-"
                        THEN 0 - DigitsValue(digits)
                        ELSE DigitsValue(digits)]
        ELSE [ok |-> FALSE, value |-> 0]

(***************************************************************************)
(* Python dict operations on conversation_state.                           *)
(***************************************************************************)
DictSet(d, k, v) == [x \in (DOMAIN d) \cup {k} |-> IF x = k THEN v ELSE d[x]]
DictPop(d, k) == [x \in (DOMAIN d) \ {k} |-> d[x]]
HasKey(d, k) == k \in DOMAIN d

RECURSIVE SortedSeq(_)
SortedSeq(S) ==
    IF S = {} THEN <<>>
    ELSE LET m == CHOOSE x \in S : \A y \in S : x <= y
         IN  <<m>> \o SortedSeq(S \ {m})

RECURSIVE SelectSeqBy(_, _)
\* the rows of a table, in store order, whose index is in Keep
SelectSeqBy(rows, Keep) ==
    IF rows = <<>> THEN <<>>
    ELSE LET n == Len(rows)
             front == SelectSeqBy(SubSeq(rows, 1, n - 1), Keep)
         IN  IF n \in Keep THEN Append(front, rows[n]) ELSE front

(***************************************************************************)
(* The user directory and the callers.                                     *)
(***************************************************************************)
Patients == {"p1", "p2"}

\* what the parameter default Depends(get_current_user) is when chat_with_bot
\* is called as a plain function: an object without user_id
DependsDefault == "Depends(get_current_user)"

Doctors ==
    << [user_id |-> "d1", first_name |-> <<"A","l","i","c","e">>,
        last_name |-> <<"S","m","i","t","h">>,
        specialization |-> <<"C","a","r","d","i","o">>],
       [user_id |-> "d2", first_name |-> <<"B","o","b">>,
        last_name |-> <<"L","e","e">>,
        specialization |-> <<"c","a","r","d","i","o"," ">>],
       [user_id |-> "d3", first_name |-> <<"A","l","i","c","e">>,
        last_name |-> <<"S","m","i","t","h">>,
        specialization |-> <<"C","A","R","D","I","O">>] >>

DoctorIds == {Doctors[i].user_id : i \in 1..Len(Doctors)}

Doctor(id) == Doctors[CHOOSE i \in 1..Len(Doctors) : Doctors[i].user_id = id]

Specializations == { <<"c","a","r","d","i","o">>, <<" ","D","e","r","m","a">> }

\* lower(trim(Doctor.specialization)) == lower(specialization.strip()),
\* rows in store order
get_doctors_by_specialization_from_db(specialization) ==
    SelectSeqBy(Doctors,
        {i \in 1..Len(Doctors) :
            lower(strip(Doctors[i].specialization)) = lower(strip(specialization))})

\* variant of get_doctors_by_specialization: the doctors come last first
get_doctors_by_specialization_reversed(specialization) ==
    LET doctors == get_doctors_by_specialization_from_db(specialization)
        n == Len(doctors)
    IN  IF doctors = <<>>
        THEN [raised |-> "HTTPException", doctors |-> <<>>]
        ELSE [raised |-> "", doctors |-> [i \in 1..n |-> doctors[n + 1 - i].user_id]]

\* raises HTTPException(404) when the directory returns no doctor
get_doctors_by_specialization(specialization) ==
    LET doctors == get_doctors_by_specialization_from_db(specialization)
    IN  IF doctors = <<>>
        THEN [raised |-> "HTTPException", doctors |-> <<>>]
        ELSE [raised |-> "", doctors |-> [i \in 1..Len(doctors) |-> doctors[i].user_id]]

\* f"{doctor.first_name} {doctor.last_name}".lower(), tabulated over the doctors
full_name_of ==
    [id \in DoctorIds |->
        lower(Doctor(id).first_name \o <<" ">> \o Doctor(id).last_name)]

full_name(doctor_id) == full_name_of[doctor_id]

(***************************************************************************)
(* The database.  db is the record of the four tables; every operation     *)
(* takes db and yields the db it commits.                                  *)
(***************************************************************************)
Database == [time_slots |-> time_slots, appointments |-> appointments,
             prescriptions |-> prescriptions, reminders |-> reminders]

\* TimeSlot rows the system starts with: d1 offers two slots, d2 one, d3 none
InitialTimeSlots ==
    (1 :> [doctor_id |-> "d1", status |-> "available"]) @@
    (2 :> [doctor_id |-> "d1", status |-> "available"]) @@
    (3 :> [doctor_id |-> "d2", status |-> "available"])

\* the doctor's rows with status 'available', oldest first
get_available_time_slots(db, doctor_id) ==
    SortedSeq({t \in DOMAIN db.time_slots :
                  /\ db.time_slots[t].doctor_id = doctor_id
                  /\ db.time_slots[t].status = "available"})

update_time_slot_status(db, time_slot_id, status) ==
    [db EXCEPT !.time_slots =
        [t \in DOMAIN db.time_slots |->
            IF t = time_slot_id
            THEN [db.time_slots[t] EXCEPT !.status = status]
            ELSE db.time_slots[t]]]

create_appointment(db, appointment_data) ==
    [db EXCEPT !.appointments =
        Append(db.appointments,
               [appointment_id |-> Len(db.appointments) + 1,
                patient_id |-> appointment_data.patient_id,
                doctor_id |-> appointment_data.doctor_id,
                appointment_date |-> appointment_data.appointment_date,
                is_active |-> appointment_data.is_active])]

\* variant of book_appointment: a failed slot update takes the appointment
\* back
book_appointment_compensating(db, appointment_data, fault) ==
    LET id == appointment_data.time_slot_id
        error(d, code) == [db |-> d, raised |-> "HTTPException", status_code |-> code]
    IN  IF fault = "get_time_slot" \/ id \notin DOMAIN db.time_slots
        THEN error(db, 500)
        ELSE IF db.time_slots[id].status # "available"
        THEN error(db, 500)
        ELSE IF fault \in {"create_appointment", "update_time_slot"}
        THEN error(db, 500)
        ELSE [db |-> update_time_slot_status(
                         create_appointment(db, appointment_data), id, "booked"),
              raised |-> "", status_code |-> 200]

\* POST /book_appointment.  Every exception of the body, the 400 it raises
\* itself included, is caught by `except Exception` and raised again as 500.
\* fault names the collaborator call that fails in this call, if any.
book_appointment(db, appointment_data, fault) ==
    LET id == appointment_data.time_slot_id
        error(d, code) == [db |-> d, raised |-> "HTTPException", status_code |-> code]
    IN  IF fault = "get_time_slot" \/ id \notin DOMAIN db.time_slots
        THEN error(db, 500)
        ELSE IF db.time_slots[id].status # "available"
        THEN error(db, 500)
        ELSE IF fault = "create_appointment"
        THEN error(db, 500)
        ELSE IF fault = "update_time_slot"
        THEN error(create_appointment(db, appointment_data), 500)
        ELSE [db |-> update_time_slot_status(
                         create_appointment(db, appointment_data), id, "booked"),
              raised |-> "", status_code |-> 200]

\* deletes the oldest TimeSlot row of the appointment's doctor that is booked
delete_oldest_timeslot_by_doctor_and_patient(db, appointment) ==
    LET booked == {t \in DOMAIN db.time_slots :
                      /\ db.time_slots[t].doctor_id = appointment.doctor_id
                      /\ db.time_slots[t].status = "booked"}
        oldest == CHOOSE t \in booked : \A u \in booked : t <= u
    IN  IF booked = {} THEN db
        ELSE [db EXCEPT !.time_slots =
                 [t \in (DOMAIN db.time_slots) \ {oldest} |-> db.time_slots[t]]]

mark_appointment_as_inactive_service(db, appointment_id) ==
    IF appointment_id \notin 1..Len(db.appointments)
    THEN [db |-> db, raised |-> "ValueError"]
    ELSE LET marked == [db EXCEPT !.appointments[appointment_id].is_active = FALSE]
         IN  [db |-> delete_oldest_timeslot_by_doctor_and_patient(
                         marked, marked.appointments[appointment_id]),
              raised |-> ""]

\* variant of mark_appointment_as_inactive: the owner is not compared
mark_appointment_as_inactive_by_anyone(db, appointment_id, current_user) ==
    IF appointment_id \notin 1..Len(db.appointments)
    THEN [db |-> db, raised |-> "HTTPException", status_code |-> 500]
    ELSE LET r == mark_appointment_as_inactive_service(db, appointment_id)
         IN  IF r.raised # ""
             THEN [db |-> r.db, raised |-> "HTTPException", status_code |-> 500]
             ELSE [db |-> r.db, raised |-> "", status_code |-> 200]

\* PATCH /appointments/{appointment_id}/inactive: 404 and 403 are raised
\* inside the try and come out as 500
mark_appointment_as_inactive(db, appointment_id, current_user) ==
    IF appointment_id \notin 1..Len(db.appointments)
    THEN [db |-> db, raised |-> "HTTPException", status_code |-> 500]
    ELSE IF db.appointments[appointment_id].doctor_id # current_user
    THEN [db |-> db, raised |-> "HTTPException", status_code |-> 500]
    ELSE LET r == mark_appointment_as_inactive_service(db, appointment_id)
         IN  IF r.raised # ""
             THEN [db |-> r.db, raised |-> "HTTPException", status_code |-> 500]
             ELSE [db |-> r.db, raised |-> "", status_code |-> 200]

(***************************************************************************)
(* Prescriptions and reminders.  A date is a day number; reminder_date 0   *)
(* is None.                                                                *)
(***************************************************************************)
NoDate == 0

\* variant of generate_reminder_times: frequency 0 yields no times instead
\* of raising
generate_reminder_times_lenient(frequency) ==
    IF frequency = 1
    THEN [raised |-> "", times |-> << [hour |-> 9, minute |-> 0] >>]
    ELSE IF frequency = 2
    THEN [raised |-> "",
          times |-> << [hour |-> 9, minute |-> 0], [hour |-> 18, minute |-> 0] >>]
    ELSE IF frequency = 3
    THEN [raised |-> "",
          times |-> << [hour |-> 9, minute |-> 0], [hour |-> 13, minute |-> 0],
                       [hour |-> 18, minute |-> 0] >>]
    ELSE IF frequency = 0
    THEN [raised |-> "", times |-> <<>>]
    ELSE [raised |-> "ValueError", times |-> <<>>]

generate_reminder_times(frequency) ==
    IF frequency = 1
    THEN [raised |-> "", times |-> << [hour |-> 9, minute |-> 0] >>]
    ELSE IF frequency = 2
    THEN [raised |-> "",
          times |-> << [hour |-> 9, minute |-> 0], [hour |-> 18, minute |-> 0] >>]
    ELSE IF frequency = 3
    THEN [raised |-> "",
          times |-> << [hour |-> 9, minute |-> 0], [hour |-> 13, minute |-> 0],
                       [hour |-> 18, minute |-> 0] >>]
    ELSE [raised |-> "ValueError", times |-> <<>>]

RECURSIVE create_reminders_loop(_, _, _)
\* for day in range(duration): one INACTIVE reminder per generated time; the
\* rows are added to the session and committed only after the loop
create_reminders_loop(prescription, day, added) ==
    IF day >= prescription.duration
    THEN [raised |-> "", added |-> added]
    ELSE LET g == generate_reminder_times(prescription.frequency)
         IN  IF g.raised # ""
             THEN [raised |-> g.raised, added |-> <<>>]
             ELSE create_reminders_loop(prescription, day + 1,
                    added \o [i \in 1..Len(g.times) |->
                                [prescription_id |-> prescription.prescription_id,
                                 reminder_time |-> g.times[i],
                                 reminder_date |-> NoDate,
                                 status |-> "INACTIVE"]])

\* the call mark_prescription_inactive(...) after the commit is not awaited:
\* the coroutine never runs and the prescription stays active
create_reminders_for_prescription(db, prescription) ==
    LET r == create_reminders_loop(prescription, 0, <<>>)
    IN  IF r.raised # ""
        THEN [db |-> db, raised |-> r.raised]
        ELSE [db |-> [db EXCEPT !.reminders = db.reminders \o r.added],
              raised |-> ""]

\* the prescription row is committed before the reminders are created
create_prescription(db, prescription_data, doctor_id) ==
    LET new_prescription ==
            [prescription_id |-> Len(db.prescriptions) + 1,
             patient_id |-> prescription_data.patient_id,
             doctor_id |-> doctor_id,
             frequency |-> prescription_data.frequency,
             duration |-> prescription_data.duration,
             is_active |-> TRUE]
        committed == [db EXCEPT !.prescriptions =
                         Append(db.prescriptions, new_prescription)]
    IN  create_reminders_for_prescription(committed, new_prescription)

\* UPDATE ... SET is_active = false; None when no row matched or the
\* statement failed (rolled back)
mark_prescription_inactive(db, prescription_id, fault) ==
    IF fault = "mark_prescription_inactive"
       \/ prescription_id \notin 1..Len(db.prescriptions)
    THEN [db |-> db, updated |-> FALSE]
    ELSE [db |-> [db EXCEPT !.prescriptions[prescription_id].is_active = FALSE],
          updated |-> TRUE]

RECURSIVE activate_loop(_, _, _, _, _)
\* the nested loops over day and range(frequency), flattened: step k is day
\* k \div frequency; reminder_index advances while reminders are left
activate_loop(rows, targets, prescription, current_date, k) ==
    IF prescription.frequency <= 0
       \/ k >= prescription.frequency * prescription.duration
    THEN rows
    ELSE IF k < Len(targets)
    THEN activate_loop(
            [rows EXCEPT ![targets[k + 1]] =
                [@ EXCEPT !.reminder_date = current_date + (k \div prescription.frequency),
                          !.status = "ACTIVE"]],
            targets, prescription, current_date, k + 1)
    ELSE activate_loop(rows, targets, prescription, current_date, k + 1)

\* variant of activate_reminders: the first date is today
activate_reminders_from_today(db, targets, prescription, now) ==
    [db EXCEPT !.reminders =
        activate_loop(db.reminders, targets, prescription, now, 0)]

\* reminders: the indexes, in db.reminders, of the rows handed in
activate_reminders(db, targets, prescription, now) ==
    [db EXCEPT !.reminders =
        activate_loop(db.reminders, targets, prescription, now + 1, 0)]

\* POST activate-reminders route: loads the prescription and its reminders
\* and activates them; any failure leaves the database as it was and is
\* raised as HTTPException
activate_reminders_for_prescription(db, prescription_id, now, fault) ==
    IF fault = "activate_reminders" \/ prescription_id \notin 1..Len(db.prescriptions)
    THEN [db |-> db, raised |-> "HTTPException", activated |-> <<>>]
    ELSE LET targets == SortedSeq({i \in 1..Len(db.reminders) :
                            db.reminders[i].prescription_id = prescription_id})
         IN  [db |-> activate_reminders(db, targets,
                        db.prescriptions[prescription_id], now),
              raised |-> "", activated |-> targets]

(***************************************************************************)
(* chat_with_bot.  A call yields the conversation_state and db it leaves   *)
(* behind and how it ended: status "reply" (a ChatResponse, reply names    *)
(* which), "raise" (an exception leaves the function) or "failure" (the    *)
(* top-level handler turned an exception into HTTP 500 'Failed to          *)
(* communicate with the chatbot').                                         *)
(* env is what the turn meets outside the handler: the collaborator call   *)
(* that fails (fault), the classifier's answer (intent), the order the     *)
(* database gives rows of equal date (tie), and the date (now).            *)
(***************************************************************************)
ResetWords == { <<"r","e","s","e","t">>, <<"s","t","a","r","t"," ","o","v","e","r">> }
\* variant of ExitWords: "ok" is not an exit word
ExitWords_without_ok ==
    { <<"o","k","a","y">>, <<"f","i","n","e">>,
      <<"t","h","a","n","k","s">>, <<"e","x","i","t">>, <<"n","o">> }

ExitWords ==
    { <<"o","k">>, <<"o","k","a","y">>, <<"f","i","n","e">>,
      <<"t","h","a","n","k","s">>, <<"e","x","i","t">>, <<"n","o">> }
affirmative_responses ==
    { <<"y","e","s">>, <<"y","e","a","h">>, <<"y","u","p">>, <<"s","u","r","e">>,
      <<"o","k">>, <<"a","l","r","i","g","h","t">>,
      <<"g","o"," ","a","h","e","a","d">> }
\* variant of negative_responses: "no" is not a negative answer
negative_responses_without_no ==
    { <<"n","o","p","e">>, <<"n","o","t"," ","n","o","w">>,
      <<"n","a","h">>, <<"n","e","v","e","r"," ","m","i","n","d">> }

negative_responses ==
    { <<"n","o">>, <<"n","o","p","e">>, <<"n","o","t"," ","n","o","w">>,
      <<"n","a","h">>, <<"n","e","v","e","r"," ","m","i","n","d">> }

Messages ==
    { <<"r","e","s","e","t">>, <<" ","S","t","a","r","t"," ","O","v","e","r">>,
      <<"A","l","i","c","e"," ","S","m","i","t","h">>, <<"b","o","b"," ","l","e","e">>,
      <<"C","a","r","o","l">>,
      <<"1">>, <<" ","2">>, <<"3">>, <<"0">>,
      <<"Y","e","s">>, <<"o","k">>, <<"n","o">> }

\* query.user_message.strip().lower(), tabulated over the messages
user_message_of == [query \in Messages |-> lower(strip(query))]

Reply(cs, db, kind, listed) ==
    [cs |-> cs, db |-> db, status |-> "reply", reply |-> kind,
     listed |-> listed, exception |-> "", intent |-> "", nested |-> 0]

Raise(cs, db, exception) ==
    [cs |-> cs, db |-> db, status |-> "raise", reply |-> "",
     listed |-> <<>>, exception |-> exception, intent |-> "", nested |-> 0]

\* variant of matching_doctor: the last match wins
matching_doctor_last(doctors, selected_doctor_name) ==
    LET hits == {i \in 1..Len(doctors) : full_name(doctors[i]) = selected_doctor_name}
    IN  IF hits = {} THEN 0 ELSE CHOOSE i \in hits : \A j \in hits : i >= j

\* for doctor in conversation_state["doctors"]: the first whose lower-cased
\* "first last" equals the message; 0 when the loop ends without a match
matching_doctor(doctors, selected_doctor_name) ==
    LET hits == {i \in 1..Len(doctors) : full_name(doctors[i]) = selected_doctor_name}
    IN  IF hits = {} THEN 0 ELSE CHOOSE i \in hits : \A j \in hits : i <= j

\* variant of other_doctors_with_slots: the candidates are not asked for
\* their open slots
other_doctors_unasked(db, doctors, doctor_id) ==
    SelectSeqBy(doctors, {i \in 1..Len(doctors) : doctors[i] # doctor_id})

\* the candidates other than doctor_id that have an open slot, in the order
\* of the candidate list
other_doctors_with_slots(db, doctors, doctor_id) ==
    SelectSeqBy(doctors,
       {i \in 1..Len(doctors) :
           /\ doctors[i] # doctor_id
           /\ get_available_time_slots(db, doctors[i]) # <<>>})

\* Stage 1
doctor_selection(cs, db, user_message, env) ==
    IF ~HasKey(cs, "doctors") THEN Raise(cs, db, "KeyError")
    ELSE LET m == matching_doctor(cs.doctors, user_message)
             doctor == cs.doctors[m]
             available_slots == get_available_time_slots(db, doctor)
             others == other_doctors_with_slots(db, cs.doctors, doctor)
         IN  IF m = 0 THEN Reply(cs, db, "doctor_not_found", <<>>)
             ELSE IF env.fault = "get_available_time_slots"
             THEN Raise(cs, db, "CollaboratorError")
             ELSE IF available_slots = <<>>
             THEN IF others # <<>>
                  THEN Reply(cs, db, "no_slots_other_doctors", others)
                  ELSE Reply(cs, db, "no_slots_no_doctors", <<>>)
             ELSE Reply(DictSet(DictSet(cs, "stage", "awaiting_slot_selection"),
                                "selected_doctor", doctor),
                        db, "slots_listed", available_slots)

\* variant of slot_index: the number is used as the list index unshifted
slot_index_unshifted(n) == n

\* int(user_message) - 1: the 1-based number shown becomes a 0-based index
slot_index(n) == n - 1

\* Stage 2
slot_selection(cs, db, patient_id, user_message, env) ==
    LET parsed == int(user_message)
        selected_slot_index == slot_index(parsed.value)
        available_slots == get_available_time_slots(db, cs.selected_doctor)
        selected_slot == available_slots[selected_slot_index + 1]
        appointment_data ==
            [doctor_id |-> cs.selected_doctor, time_slot_id |-> selected_slot,
             patient_id |-> patient_id, appointment_date |-> env.now,
             is_active |-> TRUE]
        booked == book_appointment(db, appointment_data, env.fault)
    IN  IF ~parsed.ok THEN Raise(cs, db, "ValueError")
        ELSE IF ~HasKey(cs, "selected_doctor") THEN Raise(cs, db, "KeyError")
        ELSE IF env.fault = "get_available_time_slots"
        THEN Raise(cs, db, "CollaboratorError")
        ELSE IF 0 <= selected_slot_index /\ selected_slot_index < Len(available_slots)
        THEN IF booked.raised # ""
             THEN Raise(cs, booked.db, "CollaboratorError")
             ELSE Reply(DictSet(cs, "stage", "general"), booked.db,
                        "booked", <<selected_slot>>)
        ELSE Reply(cs, db, "slot_not_available", <<>>)

\* the appointments ORDER BY appointment_date DESC puts first: any of the
\* rows of the latest date
first_by_date_desc(db, rows, tie) ==
    LET latest == SortedSeq({i \in rows :
                    \A j \in rows : db.appointments[j].appointment_date
                                      <= db.appointments[i].appointment_date})
    IN  latest[(tie % Len(latest)) + 1]

\* Stage 3
check_inactive_appointments(cs, db, patient_id, env) ==
    LET inactive == {i \in 1..Len(db.appointments) :
                        /\ db.appointments[i].patient_id = patient_id
                        /\ db.appointments[i].is_active = FALSE}
        inactive_appointment == db.appointments[first_by_date_desc(db, inactive, env.tie)]
        found == {i \in 1..Len(db.prescriptions) :
                    /\ db.prescriptions[i].patient_id = inactive_appointment.patient_id
                    /\ db.prescriptions[i].doctor_id = inactive_appointment.doctor_id}
        inactive_prescriptions ==
            SortedSeq({i \in found :
                /\ db.prescriptions[i].is_active
                /\ ~\E r \in 1..Len(db.reminders) :
                       /\ db.reminders[r].prescription_id = i
                       /\ db.reminders[r].status = "ACTIVE"})
        exit == DictSet(cs, "stage", "waiting_for_exit")
    IN  IF env.fault = "db_execute" THEN Raise(cs, db, "CollaboratorError")
        ELSE IF inactive = {} THEN Reply(exit, db, "no_prescriptions", <<>>)
        ELSE IF found = {} THEN Reply(exit, db, "no_new_prescriptions", <<>>)
        ELSE IF inactive_prescriptions = <<>>
        THEN Reply(exit, db, "all_have_reminders", <<>>)
        ELSE Reply(DictSet(DictSet(cs, "stage", "activate_reminders"),
                           "prescriptions",
                           [i \in 1..Len(inactive_prescriptions) |->
                               [prescription_id |-> inactive_prescriptions[i]]]),
                   db, "prescriptions_found", inactive_prescriptions)

\* variant of waiting_for_exit: the exit word leaves a misspelt stage
waiting_for_exit_misspelt(cs, db, user_message) ==
    IF lower(user_message) \in ExitWords
    THEN Reply(DictSet(cs, "stage", "genral"), db, "exit_understood", <<>>)
    ELSE Reply(cs, db, "exit_not_understood", <<>>)

\* Stage 4
waiting_for_exit(cs, db, user_message) ==
    IF lower(user_message) \in ExitWords
    THEN Reply(DictSet(cs, "stage", "reset"), db, "exit_understood", <<>>)
    ELSE Reply(cs, db, "exit_not_understood", <<>>)

\* variant of pop_head: list.pop() removes the last entry
pop_last(pending) == SubSeq(pending, 1, Len(pending) - 1)

\* conversation_state["prescriptions"].pop(0)
pop_head(pending) == Tail(pending)

\* variant of activation_issue: the prescription is dropped from the list
activation_issue_dropping(cs, db) ==
    Reply(DictSet(DictSet(cs, "prescriptions", pop_head(cs.prescriptions)),
                  "stage", "general"),
          db, "activation_issue", <<>>)

\* except HTTPException of the activation: nothing but the stage is assigned
activation_issue(cs, db) ==
    Reply(DictSet(cs, "stage", "general"), db, "activation_issue", <<>>)

\* Stage 5
activate_reminders_stage(cs, db, user_message, env) ==
    LET prescription_id == cs.prescriptions[1].prescription_id
        activated == activate_reminders_for_prescription(db, prescription_id,
                                                         env.now, env.fault)
        marked == mark_prescription_inactive(activated.db, prescription_id, env.fault)
        popped == DictSet(cs, "prescriptions", pop_head(cs.prescriptions))
    IN  IF lower(user_message) \in affirmative_responses
        THEN IF ~HasKey(cs, "prescriptions") THEN Raise(cs, db, "KeyError")
             ELSE IF cs.prescriptions # <<>>
             THEN IF activated.raised # ""
                  THEN activation_issue(cs, db)
                  ELSE IF popped.prescriptions # <<>>
                  THEN Reply(popped, marked.db, "activated_next", <<prescription_id>>)
                  ELSE Reply(DictSet(popped, "stage", "general"), marked.db,
                             "activated_all_processed", <<prescription_id>>)
             ELSE Reply(DictSet(cs, "stage", "general"), db,
                        "already_activated", <<>>)
        ELSE IF lower(user_message) \in negative_responses
        THEN Reply(DictSet(cs, "stage", "general"), db, "declined", <<>>)
        ELSE Reply(cs, db, "yes_no_not_understood", <<>>)

RECURSIVE chat_with_bot(_, _, _, _, _)

\* Default: the classifier decides.  The check_prescriptions hand-off calls
\* chat_with_bot(query, db) without current_user.
general_conversation(cs, db, query, env) ==
    LET doctors_response == get_doctors_by_specialization(env.intent.specialization)
        listed == DictSet(DictSet(cs, "stage", "awaiting_doctor_selection"),
                          "doctors", doctors_response.doctors)
        handed_off == DictSet(cs, "stage", "check_inactive_appointments")
    IN  IF env.fault = "get_chatbot_response" THEN Raise(cs, db, "CollaboratorError")
        ELSE IF env.intent.suggest_doctor
        THEN IF env.fault = "get_doctors_by_specialization"
             THEN [Raise(cs, db, "CollaboratorError") EXCEPT !.intent = "suggest_doctor"]
             ELSE IF doctors_response.raised # ""
             THEN [Reply(cs, db, "no_doctors_available", <<>>)
                      EXCEPT !.intent = "suggest_doctor"]
             ELSE [Reply(listed, db, "doctors_listed", doctors_response.doctors)
                      EXCEPT !.intent = "suggest_doctor"]
        ELSE IF env.intent.check_prescriptions
        THEN [chat_with_bot(handed_off, db, DependsDefault, query, env)
                  EXCEPT !.intent = "check_prescriptions", !.nested = @ + 1]
        ELSE [Reply(cs, db, "chatbot_response", <<>>) EXCEPT !.intent = "none"]

\* the if/elif chain on conversation_state["stage"] inside the try
stage_dispatch(cs, db, patient_id, user_message, query, env) ==
    IF cs.stage = "awaiting_doctor_selection"
    THEN doctor_selection(cs, db, user_message, env)
    ELSE IF cs.stage = "awaiting_slot_selection"
    THEN slot_selection(cs, db, patient_id, user_message, env)
    ELSE IF cs.stage = "check_inactive_appointments"
    THEN check_inactive_appointments(cs, db, patient_id, env)
    ELSE IF cs.stage = "waiting_for_exit"
    THEN waiting_for_exit(cs, db, user_message)
    ELSE IF cs.stage = "activate_reminders"
    THEN activate_reminders_stage(cs, db, user_message, env)
    ELSE general_conversation(cs, db, query, env)

\* variant of reset_conversation: the stage is left as it is
reset_conversation_keeping_stage(cs) ==
    DictPop(DictPop(DictPop(cs, "doctors"), "selected_doctor"), "appointment_id")

reset_conversation(cs) ==
    DictPop(DictPop(DictPop(DictSet(cs, "stage", "general"), "doctors"),
                    "selected_doctor"), "appointment_id")

\* variant of patient_id_of: every turn is booked to one fixed patient
patient_id_fixed(current_user) == CHOOSE p \in Patients : TRUE

\* patient_id = current_user.user_id
patient_id_of(current_user) == current_user

\* variant of chat_with_bot: no top-level handler around the stages
chat_with_bot_unguarded(cs, db, current_user, query, env) ==
    LET user_message == user_message_of[query]
    IN  IF current_user = DependsDefault
        THEN Raise(cs, db, "AttributeError")
        ELSE IF user_message \in ResetWords
        THEN Reply(reset_conversation(cs), db, "reset", <<>>)
        ELSE stage_dispatch(cs, db, patient_id_of(current_user), user_message,
                            query, env)

\* nested counts the calls of the handler made inside this call
chat_with_bot(cs, db, current_user, query, env) ==
    LET user_message == user_message_of[query]
        body == stage_dispatch(cs, db, patient_id_of(current_user), user_message,
                               query, env)
    IN  IF current_user = DependsDefault
        THEN Raise(cs, db, "AttributeError")
        ELSE IF user_message \in ResetWords
        THEN Reply(reset_conversation(cs), db, "reset", <<>>)
        ELSE IF body.status = "raise"
        THEN [body EXCEPT !.status = "failure"]
        ELSE body

(***************************************************************************)
(* What the requests carry and what they can meet.                         *)
(***************************************************************************)
\* the calls of POST /book_appointment and POST /chat that can be in flight
BookCalls == 1..MaxBookCalls
ChatCalls == 1..MaxChatCalls

\* a call that has not arrived yet
NoBookCall == [pc |-> "idle", patient_id |-> "", time_slot_id |-> 0,
               doctor_id |-> "", created |-> 0, status_code |-> 0]

NoChatCall == [pc |-> "idle", doctor |-> "", prescription_id |-> 0,
               seen |-> [stage |-> ""]]

NoIntent == [suggest_doctor |-> FALSE, specialization |-> <<>>,
             check_prescriptions |-> FALSE]

\* get_chatbot_response: a canned response and at most one intent flag
Intents ==
    {NoIntent, [NoIntent EXCEPT !.check_prescriptions = TRUE]}
    \cup {[NoIntent EXCEPT !.suggest_doctor = TRUE, !.specialization = sp] :
             sp \in Specializations}

Env(fault, intent, tie) ==
    [fault |-> fault, intent |-> intent, tie |-> tie, now |-> today]

\* the environments that can make a difference to a turn met in `stage`
Environments(stage) ==
    IF stage = "awaiting_doctor_selection"
    THEN {Env(f, NoIntent, 0) : f \in {"none", "get_available_time_slots"}}
    ELSE IF stage = "awaiting_slot_selection"
    THEN {Env(f, NoIntent, 0) :
            f \in {"none", "get_available_time_slots", "get_time_slot",
                   "create_appointment", "update_time_slot"}}
    ELSE IF stage = "check_inactive_appointments"
    THEN {Env(f, NoIntent, t) : f \in {"none", "db_execute"},
                                 t \in 0..(MaxAppointments - 1)}
    ELSE IF stage = "waiting_for_exit"
    THEN {Env("none", NoIntent, 0)}
    ELSE IF stage = "activate_reminders"
    THEN {Env(f, NoIntent, 0) :
            f \in {"none", "activate_reminders", "mark_prescription_inactive"}}
    ELSE {Env("none", i, 0) : i \in Intents}
         \cup {Env("get_chatbot_response", NoIntent, 0)}
         \cup {Env("get_doctors_by_specialization", i, 0) :
                  i \in {j \in Intents : j.suggest_doctor}}

Init ==
    /\ conversation_state = [stage |-> "initial", doctors |-> <<>>]
    /\ time_slots = InitialTimeSlots
    /\ appointments = <<>>
    /\ prescriptions = <<>>
    /\ reminders = <<>>
    /\ today = 1
    /\ reminder_call = [state |-> "idle", frequency |-> 0, result |-> <<>>]
    /\ chosen_by = {}
    /\ displayed = <<>>
    /\ book_calls = [c \in BookCalls |-> NoBookCall]
    /\ chat_calls = [c \in ChatCalls |-> NoChatCall]
    /\ reminder_queue = <<>>
    /\ get_reminders_call = [pc |-> "idle", reminders |-> <<>>, at_start |-> <<>>]
    /\ reminder_log = [produced |-> 0, delivered |-> <<>>, last |-> <<>>]

Commit(db) ==
    /\ time_slots' = db.time_slots
    /\ appointments' = db.appointments
    /\ prescriptions' = db.prescriptions
    /\ reminders' = db.reminders

\* Every request a turn can be: caller, message and environment.
AllTurns(stage) ==
    {[current_user |-> u, query |-> q, env |-> e] :
        u \in Patients, q \in Messages, e \in Environments(stage)}

\* A failed slot update leaves an appointment whose slot is still offered.
\* The behaviours of Spec are those in which the slot update succeeds; the
\* properties of a turn are stated for every turn of AllTurns.
Explored(t) == t.env.fault # "update_time_slot"

\* current_user is read only by the slot and prescription-check branches,
\* and the message only by the reset test and the four branches that
\* interpret it: Turns keeps one request of every class of explored
\* requests that the handler cannot tell apart (TurnsCoverAllTurns).
Callers(stage) ==
    IF stage \in {"awaiting_slot_selection", "check_inactive_appointments"}
    THEN Patients
    ELSE {CHOOSE u \in Patients : TRUE}

Queries(stage) ==
    IF stage \in {"awaiting_doctor_selection", "awaiting_slot_selection",
                  "waiting_for_exit", "activate_reminders"}
    THEN Messages
    ELSE {q \in Messages : user_message_of[q] \in ResetWords}
         \cup {CHOOSE q \in Messages : user_message_of[q] \notin ResetWords}

Turns(stage) ==
    {t \in {[current_user |-> u, query |-> q, env |-> e] :
               u \in Callers(stage), q \in Queries(stage),
               e \in Environments(stage)} : Explored(t)}

Turn(t) == chat_with_bot(conversation_state, Database, t.current_user, t.query, t.env)

\* the request t is served
ChatTurnOf(t) ==
    LET r == Turn(t)
    IN  /\ Len(r.db.appointments) <= MaxAppointments
        /\ conversation_state' = r.cs
        /\ Commit(r.db)
        /\ UNCHANGED <<today, reminder_call, queue_vars, request_vars>>

\* POST /chat by an authenticated patient
ChatTurn ==
    \E t \in Turns(conversation_state.stage) :
        /\ ChatTurnOf(t)
        /\ UNCHANGED <<chosen_by, displayed>>

\* POST /book_appointment called directly
BookAppointment ==
    \E patient_id \in Patients, time_slot_id \in DOMAIN InitialTimeSlots,
       fault \in {"none", "get_time_slot", "create_appointment", "update_time_slot"} :
        LET appointment_data ==
                [doctor_id |-> InitialTimeSlots[time_slot_id].doctor_id,
                 time_slot_id |-> time_slot_id, patient_id |-> patient_id,
                 appointment_date |-> today, is_active |-> TRUE]
            r == book_appointment(Database, appointment_data, fault)
        IN  /\ Len(r.db.appointments) <= MaxAppointments
            /\ Commit(r.db)
            /\ UNCHANGED <<conversation_state, today, reminder_call, chosen_by,
                           displayed, request_vars, queue_vars>>

\* PATCH /appointments/{appointment_id}/inactive by an authenticated doctor
MarkAppointmentInactive ==
    \E current_user \in DoctorIds, appointment_id \in 1..(MaxAppointments + 1) :
        LET r == mark_appointment_as_inactive(Database, appointment_id, current_user)
        IN  /\ Commit(r.db)
            /\ UNCHANGED <<conversation_state, today, reminder_call, chosen_by,
                           displayed, request_vars, queue_vars>>

\* the prescriptions the doctors write in this model
Prescribers == {"d1"}
PrescribedPatients == {"p1"}
PrescribedFrequencies == {2}
PrescribedDurations == {1}

\* a doctor creates a prescription (create_prescription of the store)
CreatePrescription ==
    \E doctor_id \in Prescribers, patient_id \in PrescribedPatients,
       frequency \in PrescribedFrequencies, duration \in PrescribedDurations :
        LET r == create_prescription(Database,
                    [patient_id |-> patient_id, frequency |-> frequency,
                     duration |-> duration], doctor_id)
        IN  /\ Len(prescriptions) < MaxPrescriptions
            /\ Commit(r.db)
            /\ UNCHANGED <<conversation_state, today, reminder_call, chosen_by,
                           displayed, request_vars, queue_vars>>

\* midnight
NextDay ==
    /\ today < MaxDay
    /\ today' = today + 1
    /\ UNCHANGED <<conversation_state, time_slots, appointments, prescriptions,
                   reminders, reminder_call, chosen_by, displayed, request_vars, queue_vars>>

Next ==
    \/ ChatTurn
    \/ MarkAppointmentInactive
    \/ CreatePrescription
    \/ NextDay

Spec == Init /\ [][Next]_vars

(***************************************************************************)
(* generate_reminder_times called on its own with any frequency.           *)
(***************************************************************************)
ReminderTimesInit ==
    /\ conversation_state = [stage |-> "initial", doctors |-> <<>>]
    /\ time_slots = InitialTimeSlots
    /\ appointments = <<>>
    /\ prescriptions = <<>>
    /\ reminders = <<>>
    /\ today = 1
    /\ chosen_by = {}
    /\ displayed = <<>>
    /\ book_calls = [c \in BookCalls |-> NoBookCall]
    /\ chat_calls = [c \in ChatCalls |-> NoChatCall]
    /\ reminder_queue = <<>>
    /\ get_reminders_call = [pc |-> "idle", reminders |-> <<>>, at_start |-> <<>>]
    /\ reminder_log = [produced |-> 0, delivered |-> <<>>, last |-> <<>>]
    /\ \E frequency \in (0 - MaxFrequency)..MaxFrequency :
          reminder_call = [state |-> "called", frequency |-> frequency,
                           result |-> <<>>]

GenerateReminderTimes ==
    /\ reminder_call.state = "called"
    /\ reminder_call' =
          [reminder_call EXCEPT
              !.state = "returned",
              !.result = generate_reminder_times(reminder_call.frequency)]
    /\ UNCHANGED <<conversation_state, time_slots, appointments, prescriptions,
                   reminders, today, chosen_by, displayed, request_vars, queue_vars>>

ReminderTimesSpec == ReminderTimesInit /\ [][GenerateReminderTimes]_vars

(***************************************************************************)
(* The chat alone, served to any patient, with the record of who selected  *)
(* a doctor.                                                               *)
(***************************************************************************)
SharedChatTurn ==
    \E t \in {a \in AllTurns(conversation_state.stage) : Explored(a)} :
        /\ ChatTurnOf(t)
        /\ chosen_by' = IF Turn(t).reply = "slots_listed"
                        THEN chosen_by \cup {t.current_user}
                        ELSE chosen_by
        /\ UNCHANGED displayed

SharedSessionSpec == Init /\ [][SharedChatTurn]_vars

(***************************************************************************)
(* GET /chat/reminders.  reminder_queue is filled by the reminder          *)
(* scheduler, which may put a reminder between two steps of the loop.      *)
(* Reminders are numbered in the order they are put.                       *)
(***************************************************************************)
\* reminder_queue.put(reminder) by the scheduler
PutReminder ==
    /\ reminder_log.produced < MaxReminders
    /\ reminder_queue' = Append(reminder_queue, reminder_log.produced + 1)
    /\ reminder_log' = [reminder_log EXCEPT !.produced = @ + 1]
    /\ UNCHANGED <<conversation_state, time_slots, appointments, prescriptions,
                   reminders, today, reminder_call, chosen_by,
                   displayed, request_vars, get_reminders_call>>

\* reminder_queue.empty()
queue_empty(queue) == queue = <<>>

\* reminder_queue.get(): the oldest entry leaves the queue
queue_get(queue) == [item |-> Head(queue), queue |-> Tail(queue)]

\* variant of collect: the reminder is put in front of the list
collect_in_front(collected, item) == <<item>> \o collected

\* reminders.append(...)
collect(collected, item) == Append(collected, item)

\* reminders: List[str] = []
GetRemindersBegin ==
    /\ get_reminders_call.pc = "idle"
    /\ get_reminders_call' = [pc |-> "while", reminders |-> <<>>,
                              at_start |-> reminder_queue]
    /\ UNCHANGED <<conversation_state, time_slots, appointments, prescriptions,
                   reminders, today, reminder_call, chosen_by,
                   displayed, request_vars, reminder_queue,
                   reminder_log>>

\* while not reminder_queue.empty(): reminders.append(reminder_queue.get())
GetRemindersLoop ==
    /\ get_reminders_call.pc = "while"
    /\ ~queue_empty(reminder_queue)
    /\ LET got == queue_get(reminder_queue)
       IN  /\ reminder_queue' = got.queue
           /\ get_reminders_call' =
                 [get_reminders_call EXCEPT
                     !.reminders = collect(@, got.item)]
    /\ UNCHANGED <<conversation_state, time_slots, appointments, prescriptions,
                   reminders, today, reminder_call, chosen_by,
                   displayed, request_vars, reminder_log>>

\* the loop ends on an empty queue: return JSONResponse({"reminders": reminders})
GetRemindersReturn ==
    /\ get_reminders_call.pc = "while"
    /\ queue_empty(reminder_queue)
    /\ reminder_log' =
          [reminder_log EXCEPT
              !.delivered = @ \o get_reminders_call.reminders,
              !.last = << [reminders |-> get_reminders_call.reminders,
                           at_start |-> get_reminders_call.at_start,
                           left |-> reminder_queue] >>]
    /\ get_reminders_call' = [pc |-> "idle", reminders |-> <<>>, at_start |-> <<>>]
    /\ UNCHANGED <<conversation_state, time_slots, appointments, prescriptions,
                   reminders, today, reminder_call, chosen_by,
                   displayed, request_vars, reminder_queue>>

ReminderQueueNext ==
    \/ PutReminder
    \/ GetRemindersBegin
    \/ GetRemindersLoop
    \/ GetRemindersReturn

ReminderQueueSpec == Init /\ [][ReminderQueueNext]_vars

(***************************************************************************)
(* The chat over any table of published time slots: every doctor of the    *)
(* directory, the namesake d3 included, may have published any of them.    *)
(***************************************************************************)
MaxSlots == 3

PublishedTimeSlots ==
    UNION {{[t \in 1..n |-> [doctor_id |-> owner[t], status |-> "available"]] :
               owner \in [1..n -> DoctorIds]} : n \in 0..MaxSlots}

DoctorSelectionInit ==
    /\ conversation_state = [stage |-> "initial", doctors |-> <<>>]
    /\ time_slots \in PublishedTimeSlots
    /\ appointments = <<>>
    /\ prescriptions = <<>>
    /\ reminders = <<>>
    /\ today = 1
    /\ reminder_call = [state |-> "idle", frequency |-> 0, result |-> <<>>]
    /\ chosen_by = {}
    /\ displayed = <<>>
    /\ book_calls = [c \in BookCalls |-> NoBookCall]
    /\ chat_calls = [c \in ChatCalls |-> NoChatCall]
    /\ reminder_queue = <<>>
    /\ get_reminders_call = [pc |-> "idle", reminders |-> <<>>, at_start |-> <<>>]
    /\ reminder_log = [produced |-> 0, delivered |-> <<>>, last |-> <<>>]

DoctorSelectionSpec == DoctorSelectionInit /\ [][ChatTurn]_vars

(***************************************************************************)
(* POST /book_appointment called directly, one call after the other, any   *)
(* of its collaborator calls failing.                                      *)
(***************************************************************************)
BookingNext ==
    \/ BookAppointment
    \/ NextDay

BookingSpec == Init /\ [][BookingNext]_vars

(***************************************************************************)
(* activate_reminders called on its own: any number of INACTIVE reminders  *)
(* of one prescription, whose frequency (times a day) and duration (days)  *)
(* are any counts of a small range.                                        *)
(***************************************************************************)
MaxRows == 4
MaxPerDay == 3
MaxDays == 2

ActivateRemindersInit ==
    /\ conversation_state = [stage |-> "initial", doctors |-> <<>>]
    /\ time_slots = InitialTimeSlots
    /\ appointments = <<>>
    /\ today \in 1..MaxDay
    /\ reminder_call = [state |-> "idle", frequency |-> 0, result |-> <<>>]
    /\ chosen_by = {}
    /\ displayed = <<>>
    /\ book_calls = [c \in BookCalls |-> NoBookCall]
    /\ chat_calls = [c \in ChatCalls |-> NoChatCall]
    /\ reminder_queue = <<>>
    /\ get_reminders_call = [pc |-> "idle", reminders |-> <<>>, at_start |-> <<>>]
    /\ reminder_log = [produced |-> 0, delivered |-> <<>>, last |-> <<>>]
    /\ \E frequency \in 0..MaxPerDay, duration \in 0..MaxDays :
          prescriptions = << [prescription_id |-> 1, patient_id |-> "p1",
                              doctor_id |-> "d1", frequency |-> frequency,
                              duration |-> duration, is_active |-> TRUE] >>
    /\ \E n \in 0..MaxRows :
          reminders = [i \in 1..n |->
                          [prescription_id |-> 1, reminder_time |-> 9,
                           reminder_date |-> NoDate, status |-> "INACTIVE"]]

\* await activate_reminders(db, reminders, prescription) with all the rows
ActivateReminders ==
    LET r == activate_reminders(Database, [i \in 1..Len(reminders) |-> i],
                                prescriptions[1], today)
    IN  /\ Commit(r)
        /\ UNCHANGED <<conversation_state, today, reminder_call, chosen_by,
                       displayed, request_vars, queue_vars>>

ActivateRemindersSpec == ActivateRemindersInit /\ [][ActivateReminders]_vars

(***************************************************************************)
(* POST /book_appointment served concurrently: a call is suspended at each *)
(* of its three awaits, and the other calls run in between.  No            *)
(* collaborator call fails here.                                           *)
(***************************************************************************)
\* a call arrives with its appointment_data
BookReceive(c) ==
    \E patient_id \in Patients, time_slot_id \in DOMAIN time_slots :
        /\ book_calls[c].pc = "idle"
        /\ book_calls' =
              [book_calls EXCEPT ![c] =
                  [NoBookCall EXCEPT !.pc = "get_time_slot",
                                     !.patient_id = patient_id,
                                     !.time_slot_id = time_slot_id,
                                     !.doctor_id = time_slots[time_slot_id].doctor_id]]
        /\ UNCHANGED <<conversation_state, time_slots, appointments, prescriptions,
                       reminders, today, reminder_call, chosen_by, displayed,
                       chat_calls, queue_vars>>

\* get_time_slot_by_id_from_db returns and the status is tested; the 400 is
\* raised again as 500
BookCheck(c) ==
    /\ book_calls[c].pc = "get_time_slot"
    /\ book_calls' =
          [book_calls EXCEPT ![c] =
              IF time_slots[@.time_slot_id].status # "available"
              THEN [@ EXCEPT !.pc = "done", !.status_code = 500]
              ELSE [@ EXCEPT !.pc = "create_appointment"]]
    /\ UNCHANGED <<conversation_state, time_slots, appointments, prescriptions,
                   reminders, today, reminder_call, chosen_by, displayed,
                   chat_calls, queue_vars>>

\* create_appointment commits the row and returns
BookCreate(c) ==
    /\ book_calls[c].pc = "create_appointment"
    /\ appointments' =
          create_appointment(Database,
              [patient_id |-> book_calls[c].patient_id,
               doctor_id |-> book_calls[c].doctor_id,
               appointment_date |-> today, is_active |-> TRUE]).appointments
    /\ book_calls' = [book_calls EXCEPT ![c].pc = "update_time_slot",
                                        ![c].created = Len(appointments) + 1]
    /\ UNCHANGED <<conversation_state, time_slots, prescriptions, reminders,
                   today, reminder_call, chosen_by, displayed, chat_calls,
                   queue_vars>>

\* update_time_slot_status commits 'booked' and the call returns
BookUpdate(c) ==
    /\ book_calls[c].pc = "update_time_slot"
    /\ time_slots' = update_time_slot_status(Database, book_calls[c].time_slot_id,
                                             "booked").time_slots
    /\ book_calls' = [book_calls EXCEPT ![c].pc = "done", ![c].status_code = 200]
    /\ UNCHANGED <<conversation_state, appointments, prescriptions, reminders,
                   today, reminder_call, chosen_by, displayed, chat_calls,
                   queue_vars>>

ConcurrentBookingNext ==
    \E c \in BookCalls :
        \/ BookReceive(c)
        \/ BookCheck(c)
        \/ BookCreate(c)
        \/ BookUpdate(c)

ConcurrentBookingSpec == Init /\ [][ConcurrentBookingNext]_vars

(***************************************************************************)
(* POST /chat served concurrently.  The handler is a coroutine: a turn     *)
(* that awaits a collaborator is suspended, and the event loop runs other  *)
(* turns until the collaborator answers.  The turns that select a doctor   *)
(* and that activate reminders are taken step by step; any other turn, and *)
(* these too, can also run from its first line to its reply (ChatTurn).    *)
(* No collaborator call fails here.  A call that has replied is forgotten, *)
(* and the calls are numbered in the order they arrive.                    *)
(***************************************************************************)
\* A session of Spec in which two prescriptions wait for their reminders
\* (reached there by: doctors listed, d1 selected, slot 1 booked, the
\* appointment marked inactive, two prescriptions written, the check turn).
PendingActivation ==
    /\ conversation_state =
          [stage |-> "activate_reminders", doctors |-> <<"d1", "d2", "d3">>,
           selected_doctor |-> "d1",
           prescriptions |-> <<[prescription_id |-> 1], [prescription_id |-> 2]>>]
    /\ time_slots = [t \in {2, 3} |-> InitialTimeSlots[t]]
    /\ appointments = <<[appointment_id |-> 1, patient_id |-> "p1",
                         doctor_id |-> "d1", appointment_date |-> 1,
                         is_active |-> FALSE]>>
    /\ prescriptions =
          [i \in 1..2 |-> [prescription_id |-> i, patient_id |-> "p1",
                           doctor_id |-> "d1", frequency |-> 2, duration |-> 1,
                           is_active |-> TRUE]]
    /\ reminders =
          [i \in 1..4 |->
              [prescription_id |-> (i + 1) \div 2,
               reminder_time |-> generate_reminder_times(2).times[2 - (i % 2)],
               reminder_date |-> NoDate, status |-> "INACTIVE"]]
    /\ today = 1
    /\ reminder_call = [state |-> "idle", frequency |-> 0, result |-> <<>>]
    /\ chosen_by = {}
    /\ displayed = <<>>
    /\ book_calls = [c \in BookCalls |-> NoBookCall]
    /\ chat_calls = [c \in ChatCalls |-> NoChatCall]
    /\ reminder_queue = <<>>
    /\ get_reminders_call = [pc |-> "idle", reminders |-> <<>>, at_start |-> <<>>]
    /\ reminder_log = [produced |-> 0, delivered |-> <<>>, last |-> <<>>]

\* the next free call
Arrives(c) ==
    /\ chat_calls[c].pc = "idle"
    /\ \A b \in ChatCalls : b < c => chat_calls[b].pc # "idle"

\* a turn naming a candidate runs up to await get_available_time_slots
BeginSelection(c) ==
    \E query \in Messages :
        LET m == matching_doctor(conversation_state.doctors, user_message_of[query])
        IN  /\ Arrives(c)
            /\ conversation_state.stage = "awaiting_doctor_selection"
            /\ user_message_of[query] \notin ResetWords
            /\ HasKey(conversation_state, "doctors")
            /\ m # 0
            /\ chat_calls' =
                  [chat_calls EXCEPT ![c] =
                      [NoChatCall EXCEPT !.pc = "get_available_time_slots",
                                         !.doctor = conversation_state.doctors[m],
                                         !.seen = conversation_state]]
            /\ UNCHANGED <<conversation_state, time_slots, appointments,
                           prescriptions, reminders, today, reminder_call,
                           chosen_by, displayed, book_calls, queue_vars>>

\* the slots arrive: the turn lists them and assigns stage and
\* selected_doctor, or scans conversation_state["doctors"] for the others
ResumeSelection(c) ==
    LET doctor == chat_calls[c].doctor
        available_slots == get_available_time_slots(Database, doctor)
    IN  /\ chat_calls[c].pc = "get_available_time_slots"
        /\ IF available_slots # <<>>
           THEN /\ conversation_state' =
                      DictSet(DictSet(conversation_state, "stage",
                                      "awaiting_slot_selection"),
                              "selected_doctor", doctor)
           ELSE conversation_state' = conversation_state
        /\ chat_calls' = [chat_calls EXCEPT ![c] = NoChatCall]
        /\ UNCHANGED <<time_slots, appointments, prescriptions, reminders, today,
                       reminder_call, chosen_by, displayed, book_calls, queue_vars>>

\* an affirmative turn runs up to await activate_reminders_for_prescription
BeginActivation(c) ==
    \E query \in Messages :
        /\ Arrives(c)
        /\ conversation_state.stage = "activate_reminders"
        /\ user_message_of[query] \notin ResetWords
        /\ lower(user_message_of[query]) \in affirmative_responses
        /\ HasKey(conversation_state, "prescriptions")
        /\ conversation_state.prescriptions # <<>>
        /\ chat_calls' =
              [chat_calls EXCEPT ![c] =
                  [NoChatCall EXCEPT
                      !.pc = "activate_reminders",
                      !.prescription_id =
                          conversation_state.prescriptions[1].prescription_id]]
        /\ UNCHANGED <<conversation_state, time_slots, appointments,
                       prescriptions, reminders, today, reminder_call,
                       chosen_by, displayed, book_calls, queue_vars>>

\* the reminders are activated; the turn goes on to await
\* mark_prescription_inactive
ResumeActivation(c) ==
    LET r == activate_reminders_for_prescription(
                 Database, chat_calls[c].prescription_id, today, "none")
    IN  /\ chat_calls[c].pc = "activate_reminders"
        /\ Commit(r.db)
        /\ IF r.raised # ""
           THEN /\ conversation_state' = DictSet(conversation_state, "stage", "general")
                /\ chat_calls' = [chat_calls EXCEPT ![c] = NoChatCall]
           ELSE /\ conversation_state' = conversation_state
                /\ chat_calls' =
                      [chat_calls EXCEPT ![c].pc = "mark_prescription_inactive"]
        /\ UNCHANGED <<today, reminder_call, chosen_by, displayed, book_calls,
                       queue_vars>>

\* the prescription is marked; the turn pops the head of the list as it is
\* now (IndexError, and the 500, when there is none) and leaves the stage
\* when the list is empty
ResumeMark(c) ==
    LET marked == mark_prescription_inactive(Database,
                                             chat_calls[c].prescription_id, "none")
        pending == conversation_state.prescriptions
        popped == DictSet(conversation_state, "prescriptions", pop_head(pending))
    IN  /\ chat_calls[c].pc = "mark_prescription_inactive"
        /\ Commit(marked.db)
        /\ conversation_state' =
              IF pending = <<>> THEN conversation_state
              ELSE IF popped.prescriptions # <<>> THEN popped
              ELSE DictSet(popped, "stage", "general")
        /\ chat_calls' = [chat_calls EXCEPT ![c] = NoChatCall]
        /\ UNCHANGED <<today, reminder_call, chosen_by, displayed, book_calls,
                       queue_vars>>

ConcurrentSelectionNext ==
    \/ ChatTurn
    \/ \E c \in ChatCalls :
          \/ BeginSelection(c)
          \/ ResumeSelection(c)

ConcurrentSelectionSpec == Init /\ [][ConcurrentSelectionNext]_vars

ConcurrentActivationNext ==
    \/ ChatTurn
    \/ \E c \in ChatCalls :
          \/ BeginActivation(c)
          \/ ResumeActivation(c)
          \/ ResumeMark(c)

ConcurrentActivationSpec == PendingActivation /\ [][ConcurrentActivationNext]_vars

(***************************************************************************)
(* The chat while slots are also booked directly through                   *)
(* POST /book_appointment.  displayed remembers the slots the last         *)
(* doctor-selection reply listed, in the order it numbered them.           *)
(***************************************************************************)
ListingChatTurn ==
    \E t \in Turns(conversation_state.stage) :
        /\ ChatTurnOf(t)
        /\ displayed' = IF Turn(t).reply = "slots_listed"
                        THEN Turn(t).listed
                        ELSE displayed
        /\ UNCHANGED chosen_by

SlotChoiceNext ==
    \/ ListingChatTurn
    \/ BookAppointment

SlotChoiceSpec == Init /\ [][SlotChoiceNext]_vars

(***************************************************************************)
(* Every request ends as one of the requests ChatTurn takes does.          *)
(***************************************************************************)
TurnsCoverAllTurns ==
    {Turn(t) : t \in {a \in AllTurns(conversation_state.stage) : Explored(a)}}
        \subseteq {Turn(u) : u \in Turns(conversation_state.stage)}

(***************************************************************************)
(* Properties of the chat session.  A property of a turn is stated in the  *)
(* state the turn starts from, for every request of AllTurns.              *)
(***************************************************************************)

\* C1 as stated: in every reachable state of the session, the initial one
\* included, stage is one of the six defined stages.
C1_StageIsDefined ==
    conversation_state.stage \in
        {"general", "awaiting_doctor_selection", "awaiting_slot_selection",
         "check_inactive_appointments", "activate_reminders", "waiting_for_exit"}

\* C1 amended: in every reachable state stage is one of the six defined stages
\* or one of the literals "initial" (the value before the first turn that
\* assigns a stage) and "reset" (assigned only on an exit word in
\* waiting_for_exit); a turn met in "initial" or "reset" is handled as one met
\* in general; no turn assigns any other value.
C1_StageIsDefinedInitialOrReset ==
    LET stage == conversation_state.stage
        Known == {"general", "awaiting_doctor_selection", "awaiting_slot_selection",
                  "check_inactive_appointments", "activate_reminders",
                  "waiting_for_exit", "initial", "reset"}
    IN  /\ stage \in Known
        /\ \A t \in AllTurns(stage) :
              LET r == Turn(t)
                  g == chat_with_bot(DictSet(conversation_state, "stage", "general"),
                                     Database, t.current_user, t.query, t.env)
              IN  /\ r.cs.stage \in Known
                  /\ r.cs.stage = "initial" => stage = "initial"
                  /\ r.cs.stage = "reset" => stage \in {"waiting_for_exit", "reset"}
                  /\ stage \in {"initial", "reset"} =>
                        /\ r.status = g.status
                        /\ r.reply = g.reply
                        /\ r.db = g.db
                        /\ DictPop(r.cs, "stage") = DictPop(g.cs, "stage")
                        /\ r.cs.stage \in {g.cs.stage, stage}

\* an exit word in waiting_for_exit has left the stage "reset"
C1_StageReset == conversation_state.stage = "reset"

\* C2: a turn whose trimmed, lower-cased message is a reset word leaves
\* stage = general, no doctor candidates, no selected doctor and an empty
\* pending-prescription list, whatever the stage was.
C2_ResetLeavesCleanSession ==
    \A t \in AllTurns(conversation_state.stage) :
        user_message_of[t.query] \in ResetWords =>
            LET r == Turn(t)
            IN  /\ r.status = "reply"
                /\ r.cs.stage = "general"
                /\ HasKey(r.cs, "doctors") => r.cs.doctors = <<>>
                /\ ~HasKey(r.cs, "selected_doctor")
                /\ HasKey(r.cs, "prescriptions") => r.cs.prescriptions = <<>>

\* C3: in awaiting_slot_selection a message that parses as n with
\* 1 <= n <= number of open slots of the selected doctor creates exactly one
\* appointment for (caller, selected doctor, today), marks the n-th open slot
\* booked and nothing else, and sets stage to general.
C3_SlotNumberBooks ==
    (/\ conversation_state.stage = "awaiting_slot_selection"
     /\ HasKey(conversation_state, "selected_doctor")) =>
    \A t \in AllTurns(conversation_state.stage) :
        LET parsed == int(user_message_of[t.query])
            doctor == conversation_state.selected_doctor
            open == SortedSeq({s \in DOMAIN time_slots :
                                  /\ time_slots[s].doctor_id = doctor
                                  /\ time_slots[s].status = "available"})
            r == Turn(t)
        IN  (/\ t.env.fault = "none"
             /\ parsed.ok
             /\ 1 <= parsed.value
             /\ parsed.value <= Len(open)) =>
                /\ r.status = "reply"
                /\ r.reply = "booked"
                /\ Len(r.db.appointments) = Len(appointments) + 1
                /\ SubSeq(r.db.appointments, 1, Len(appointments)) = appointments
                /\ LET made == r.db.appointments[Len(r.db.appointments)]
                   IN  /\ made.patient_id = t.current_user
                       /\ made.doctor_id = doctor
                       /\ made.appointment_date = today
                       /\ made.is_active
                /\ DOMAIN r.db.time_slots = DOMAIN time_slots
                /\ \A s \in DOMAIN time_slots :
                      r.db.time_slots[s] =
                          IF s = open[parsed.value]
                          THEN [time_slots[s] EXCEPT !.status = "booked"]
                          ELSE time_slots[s]
                /\ r.db.prescriptions = prescriptions
                /\ r.db.reminders = reminders
                /\ r.cs.stage = "general"

\* a slot number has booked: an appointment with the doctor still selected
\* and a booked slot of that doctor
C3_Booked ==
    /\ conversation_state.stage = "general"
    /\ HasKey(conversation_state, "selected_doctor")
    /\ \E i \in 1..Len(appointments) :
          /\ appointments[i].doctor_id = conversation_state.selected_doctor
          /\ appointments[i].is_active
    /\ \E s \in DOMAIN time_slots :
          /\ time_slots[s].doctor_id = conversation_state.selected_doctor
          /\ time_slots[s].status = "booked"

\* C4: in awaiting_slot_selection a message that is out of range or does not
\* parse as an integer gets a normal reply: no failure, the stage stays
\* awaiting_slot_selection and no appointment is created.
C4_BadSlotInputIsAnswered ==
    (/\ conversation_state.stage = "awaiting_slot_selection"
     /\ HasKey(conversation_state, "selected_doctor")) =>
    \A t \in AllTurns(conversation_state.stage) :
        LET user_message == user_message_of[t.query]
            parsed == int(user_message)
            open == {s \in DOMAIN time_slots :
                        /\ time_slots[s].doctor_id = conversation_state.selected_doctor
                        /\ time_slots[s].status = "available"}
            r == Turn(t)
        IN  (/\ t.env.fault = "none"
             /\ user_message \notin ResetWords
             /\ \/ ~parsed.ok
                \/ parsed.value < 1
                \/ parsed.value > Cardinality(open)) =>
                /\ r.status = "reply"
                /\ r.cs.stage = "awaiting_slot_selection"
                /\ r.db.appointments = appointments

\* C5: in awaiting_doctor_selection the stage after the turn is
\* awaiting_slot_selection, with selected_doctor the candidate, if and only if
\* the message is the full name of some candidate and the first such
\* candidate in list order has an open slot; otherwise the stage stays
\* awaiting_doctor_selection.
C5_FirstMatchWithSlotsIsSelected ==
    (/\ conversation_state.stage = "awaiting_doctor_selection"
     /\ HasKey(conversation_state, "doctors")) =>
    \A t \in AllTurns(conversation_state.stage) :
        LET user_message == user_message_of[t.query]
            candidates == conversation_state.doctors
            matches == {i \in 1..Len(candidates) :
                           full_name(candidates[i]) = user_message}
            first == CHOOSE i \in matches : \A j \in matches : i <= j
            HasOpenSlot(d) == \E s \in DOMAIN time_slots :
                                 /\ time_slots[s].doctor_id = d
                                 /\ time_slots[s].status = "available"
            r == Turn(t)
        IN  user_message \notin ResetWords =>
                IF /\ matches # {}
                   /\ HasOpenSlot(candidates[first])
                   /\ t.env.fault = "none"
                THEN /\ r.cs.stage = "awaiting_slot_selection"
                     /\ r.cs.selected_doctor = candidates[first]
                ELSE r.cs.stage = "awaiting_doctor_selection"

\* the first of two candidates of the same name has been selected
C5_FirstNamesakeSelected ==
    /\ conversation_state.stage = "awaiting_slot_selection"
    /\ HasKey(conversation_state, "doctors")
    /\ HasKey(conversation_state, "selected_doctor")
    /\ \E i, j \in 1..Len(conversation_state.doctors) :
          /\ i < j
          /\ conversation_state.doctors[i] = conversation_state.selected_doctor
          /\ full_name(conversation_state.doctors[j])
                = full_name(conversation_state.doctors[i])

\* C6: in activate_reminders with k >= 1 pending prescriptions an affirmative
\* turn whose activation succeeds activates the reminders of the head
\* prescription and of no other, removes exactly the head from the pending
\* list, and leaves stage activate_reminders while entries remain, general
\* when the list is emptied.
C6_OnePrescriptionPerAffirmativeTurn ==
    (/\ conversation_state.stage = "activate_reminders"
     /\ HasKey(conversation_state, "prescriptions")
     /\ conversation_state.prescriptions # <<>>) =>
    \A t \in AllTurns(conversation_state.stage) :
        LET pending == conversation_state.prescriptions
            head == pending[1].prescription_id
            r == Turn(t)
        IN  (/\ user_message_of[t.query] \in affirmative_responses
             /\ t.env.fault # "activate_reminders") =>
                /\ r.status = "reply"
                /\ r.cs.prescriptions = Tail(pending)
                /\ Len(r.db.reminders) = Len(reminders)
                /\ \A i \in 1..Len(reminders) :
                      IF reminders[i].prescription_id = head
                      THEN r.db.reminders[i].status = "ACTIVE"
                      ELSE r.db.reminders[i] = reminders[i]
                /\ r.cs.stage = IF Tail(pending) # <<>>
                                THEN "activate_reminders" ELSE "general"

\* the first of two pending prescriptions has been activated and removed
C6_FirstOfTwoActivated ==
    /\ conversation_state.stage = "activate_reminders"
    /\ HasKey(conversation_state, "prescriptions")
    /\ conversation_state.prescriptions = << [prescription_id |-> 2] >>
    /\ \E i \in 1..Len(reminders) : reminders[i].prescription_id = 1
    /\ \A i \in 1..Len(reminders) :
          reminders[i].status = "ACTIVE" <=> reminders[i].prescription_id = 1

\* C7: generate_reminder_times(f) returns [09:00] for f = 1, [09:00, 18:00]
\* for f = 2, [09:00, 13:00, 18:00] for f = 3 (f times, increasing), and for
\* every other integer raises ValueError and returns nothing.
C7_ReminderTimes ==
    reminder_call.state = "returned" =>
        LET f == reminder_call.frequency
            r == reminder_call.result
            at(h) == [hour |-> h, minute |-> 0]
        IN  /\ f = 1 => r = [raised |-> "", times |-> <<at(9)>>]
            /\ f = 2 => r = [raised |-> "", times |-> <<at(9), at(18)>>]
            /\ f = 3 => r = [raised |-> "", times |-> <<at(9), at(13), at(18)>>]
            /\ f \notin {1, 2, 3} => r = [raised |-> "ValueError", times |-> <<>>]
            /\ r.raised = "" =>
                  /\ Len(r.times) = f
                  /\ \A i \in 1..(Len(r.times) - 1) :
                        r.times[i].hour < r.times[i + 1].hour

\* generate_reminder_times has returned for a frequency it does not support
C7_UnsupportedFrequencyReturned ==
    /\ reminder_call.state = "returned"
    /\ reminder_call.frequency = 0
    /\ reminder_call.result.raised = "ValueError"

\* C8: in the general stage, when the classifier flags check_prescriptions,
\* the same turn returns the prescription-check reply, not a failure, and
\* ends with stage activate_reminders or waiting_for_exit.
C8_CheckPrescriptionsRunsInSameTurn ==
    conversation_state.stage = "general" =>
    \A t \in AllTurns(conversation_state.stage) :
        (/\ t.env.fault = "none"
         /\ t.env.intent.check_prescriptions
         /\ user_message_of[t.query] \notin ResetWords) =>
            LET r == Turn(t)
            IN  /\ r.status = "reply"
                /\ r.reply \in {"no_prescriptions", "no_new_prescriptions",
                                "all_have_reminders", "prescriptions_found"}
                /\ r.cs.stage \in {"activate_reminders", "waiting_for_exit"}

\* C9: processing check_inactive_appointments for patient p sets the pending
\* list to exactly the prescriptions of (p, doctor of p's most recent inactive
\* appointment) that are active and have no ACTIVE reminder, in store order,
\* and sets stage to activate_reminders iff that list is non-empty, otherwise
\* to waiting_for_exit.
C9_CheckSetsPendingList ==
    conversation_state.stage = "check_inactive_appointments" =>
    \A t \in AllTurns(conversation_state.stage) :
        LET p == t.current_user
            inactive == {i \in 1..Len(appointments) :
                            /\ appointments[i].patient_id = p
                            /\ ~appointments[i].is_active}
            latest == {i \in inactive :
                          \A j \in inactive : appointments[j].appointment_date
                                                <= appointments[i].appointment_date}
            Due(a) == SortedSeq({k \in 1..Len(prescriptions) :
                          /\ prescriptions[k].patient_id = p
                          /\ prescriptions[k].doctor_id = appointments[a].doctor_id
                          /\ prescriptions[k].is_active
                          /\ \A i \in 1..Len(reminders) :
                                reminders[i].prescription_id = k =>
                                    reminders[i].status # "ACTIVE"})
            r == Turn(t)
            pending == IF HasKey(r.cs, "prescriptions")
                       THEN [i \in 1..Len(r.cs.prescriptions) |->
                                r.cs.prescriptions[i].prescription_id]
                       ELSE <<>>
        IN  (/\ t.env.fault = "none"
             /\ user_message_of[t.query] \notin ResetWords) =>
                /\ r.status = "reply"
                /\ IF inactive = {}
                   THEN pending = <<>> /\ r.cs.stage = "waiting_for_exit"
                   ELSE \E a \in latest :
                           /\ pending = Due(a)
                           /\ r.cs.stage = IF Due(a) # <<>>
                                           THEN "activate_reminders"
                                           ELSE "waiting_for_exit"

\* C10: a turn that ends in the top-level failure leaves the stage as it was
\* before the turn.
C10_FailureKeepsStage ==
    \A t \in AllTurns(conversation_state.stage) :
        LET r == Turn(t)
        IN  r.status = "failure" => r.cs.stage = conversation_state.stage

(***************************************************************************)
(* What does hold of the prescription check: the list it computes is the   *)
(* one described, and it is stored when it is not empty; when it is empty  *)
(* only the stage is assigned.                                             *)
(***************************************************************************)
CheckStoresNonEmptyListOnly ==
    conversation_state.stage = "check_inactive_appointments" =>
    \A t \in AllTurns(conversation_state.stage) :
        LET p == t.current_user
            inactive == {i \in 1..Len(appointments) :
                            /\ appointments[i].patient_id = p
                            /\ ~appointments[i].is_active}
            latest == {i \in inactive :
                          \A j \in inactive : appointments[j].appointment_date
                                                <= appointments[i].appointment_date}
            Due(a) == SortedSeq({k \in 1..Len(prescriptions) :
                          /\ prescriptions[k].patient_id = p
                          /\ prescriptions[k].doctor_id = appointments[a].doctor_id
                          /\ prescriptions[k].is_active
                          /\ \A i \in 1..Len(reminders) :
                                reminders[i].prescription_id = k =>
                                    reminders[i].status # "ACTIVE"})
            r == Turn(t)
            exit == DictSet(conversation_state, "stage", "waiting_for_exit")
        IN  (/\ t.env.fault = "none"
             /\ user_message_of[t.query] \notin ResetWords) =>
                /\ r.status = "reply"
                /\ r.db = Database
                /\ IF inactive = {}
                   THEN r.cs = exit
                   ELSE \E a \in latest :
                           IF Due(a) = <<>>
                           THEN r.cs = exit
                           ELSE /\ r.cs.stage = "activate_reminders"
                                /\ [i \in 1..Len(r.cs.prescriptions) |->
                                       r.cs.prescriptions[i].prescription_id] = Due(a)

\* C11: in every reachable session state selected_doctor is set only if
\* stage = awaiting_slot_selection.
C11_SelectedDoctorOnlyWhileChoosingSlot ==
    HasKey(conversation_state, "selected_doctor") =>
        conversation_state.stage = "awaiting_slot_selection"

\* C12: in every reachable session state the pending-prescription list is
\* non-empty only if stage = activate_reminders.
C12_PendingOnlyWhileActivating ==
    (/\ HasKey(conversation_state, "prescriptions")
     /\ conversation_state.prescriptions # <<>>) =>
        conversation_state.stage = "activate_reminders"

\* C13: the session is one process-wide state.  Whoever selected the doctor,
\* a turn of any patient B is interpreted against the stage, candidate list
\* and selected doctor that are stored: in awaiting_doctor_selection the
\* outcome of a turn does not depend on the caller, and in
\* awaiting_slot_selection a valid slot number sent by B, B having selected a
\* doctor or not, books an appointment for B with the stored selected doctor.
C13_SessionSharedByAllCallers ==
    LET stage == conversation_state.stage
    IN  /\ HasKey(conversation_state, "selected_doctor") => chosen_by # {}
        /\ stage = "awaiting_doctor_selection" =>
              \A t \in AllTurns(stage), B \in Patients :
                  LET r == Turn(t)
                      s == Turn([t EXCEPT !.current_user = B])
                  IN  s = r
        /\ (stage = "awaiting_slot_selection"
              /\ HasKey(conversation_state, "selected_doctor")) =>
              \A t \in AllTurns(stage) :
                  LET parsed == int(user_message_of[t.query])
                      open == {s \in DOMAIN time_slots :
                                  /\ time_slots[s].doctor_id
                                        = conversation_state.selected_doctor
                                  /\ time_slots[s].status = "available"}
                      r == Turn(t)
                  IN  (/\ t.env.fault = "none"
                       /\ parsed.ok
                       /\ 1 <= parsed.value
                       /\ parsed.value <= Cardinality(open)) =>
                          /\ r.reply = "booked"
                          /\ Len(r.db.appointments) = Len(appointments) + 1
                          /\ LET made == r.db.appointments[Len(r.db.appointments)]
                             IN  /\ made.patient_id = t.current_user
                                 /\ made.doctor_id = conversation_state.selected_doctor

\* a patient who never selected a doctor holds an appointment with the doctor
\* another patient selected
C13_BookedOnAnothersSelection ==
    /\ HasKey(conversation_state, "selected_doctor")
    /\ chosen_by # {}
    /\ \E i \in 1..Len(appointments) :
          /\ appointments[i].patient_id \notin chosen_by
          /\ appointments[i].doctor_id = conversation_state.selected_doctor

\* C14 as stated: in the general stage, when the classifier flags
\* suggest_doctor(s), the candidate list becomes the list the directory
\* returns for s, in its order, and stage becomes awaiting_doctor_selection
\* if the list is not empty; if no doctor is found or the lookup fails the
\* reply is apologetic and stage and candidate list are unchanged.
C14_SuggestDoctorListsOrApologises ==
    conversation_state.stage = "general" =>
    \A t \in AllTurns(conversation_state.stage) :
        (/\ t.env.intent.suggest_doctor
         /\ t.env.fault \in {"none", "get_doctors_by_specialization"}
         /\ user_message_of[t.query] \notin ResetWords) =>
            LET returned ==
                    get_doctors_by_specialization_from_db(t.env.intent.specialization)
                r == Turn(t)
            IN  IF t.env.fault = "none" /\ returned # <<>>
                THEN /\ r.status = "reply"
                     /\ r.cs.doctors = [i \in 1..Len(returned) |-> returned[i].user_id]
                     /\ r.cs.stage = "awaiting_doctor_selection"
                ELSE /\ r.status = "reply"
                     /\ r.reply = "no_doctors_available"
                     /\ r.cs = conversation_state

\* C14 amended: as stated when the directory returns a list or finds no
\* doctor (the lookup raises its HTTP 404); when the lookup fails in any other
\* way the turn ends in the top-level failure, not in an apologetic reply,
\* with stage and candidate list unchanged.  The same holds of a turn met in
\* the stages "initial" and "reset".
C14_SuggestDoctorListsApologisesOrFails ==
    conversation_state.stage \in {"general", "initial", "reset"} =>
    \A t \in AllTurns(conversation_state.stage) :
        (/\ t.env.intent.suggest_doctor
         /\ t.env.fault \in {"none", "get_doctors_by_specialization"}
         /\ user_message_of[t.query] \notin ResetWords) =>
            LET returned ==
                    get_doctors_by_specialization_from_db(t.env.intent.specialization)
                r == Turn(t)
            IN  /\ r.db = Database
                /\ IF t.env.fault # "none"
                   THEN /\ r.status = "failure"
                        /\ r.cs = conversation_state
                   ELSE IF returned = <<>>
                   THEN /\ r.status = "reply"
                        /\ r.reply = "no_doctors_available"
                        /\ r.cs = conversation_state
                   ELSE /\ r.status = "reply"
                        /\ r.reply = "doctors_listed"
                        /\ r.cs = DictSet(DictSet(conversation_state, "stage",
                                                  "awaiting_doctor_selection"),
                                          "doctors",
                                          [i \in 1..Len(returned) |->
                                              returned[i].user_id])

\* the directory's doctors for a specialization are the stored candidates
C14_CandidatesListed ==
    /\ conversation_state.stage = "awaiting_doctor_selection"
    /\ HasKey(conversation_state, "doctors")
    /\ Len(conversation_state.doctors) = 3
    /\ \A i \in 1..3 : conversation_state.doctors[i] = Doctors[i].user_id

\* C15: in activate_reminders a message of {no, nope, not now, nah, never
\* mind} sets stage to general and a message that is neither affirmative nor
\* negative leaves stage at activate_reminders; in both cases no reminder is
\* activated, no prescription is marked inactive and the pending list is
\* unchanged.
C15_NegativeOrUnclearAnswerActivatesNothing ==
    (/\ conversation_state.stage = "activate_reminders"
     /\ HasKey(conversation_state, "prescriptions")) =>
    \A t \in AllTurns(conversation_state.stage) :
        LET user_message == user_message_of[t.query]
            negative == { <<"n","o">>, <<"n","o","p","e">>,
                          <<"n","o","t"," ","n","o","w">>, <<"n","a","h">>,
                          <<"n","e","v","e","r"," ","m","i","n","d">> }
            r == Turn(t)
        IN  (/\ user_message \notin affirmative_responses
             /\ user_message \notin ResetWords) =>
                /\ r.status = "reply"
                /\ r.cs.stage = IF user_message \in negative
                                THEN "general" ELSE "activate_reminders"
                /\ r.db.reminders = reminders
                /\ r.db.prescriptions = prescriptions
                /\ r.cs.prescriptions = conversation_state.prescriptions

\* a negative answer has ended the activation: stage general, the pending
\* prescriptions still active and without an ACTIVE reminder
C15_DeclinedWithPending ==
    /\ conversation_state.stage = "general"
    /\ HasKey(conversation_state, "prescriptions")
    /\ Len(conversation_state.prescriptions) = 2
    /\ \A i \in 1..Len(prescriptions) : prescriptions[i].is_active
    /\ \A i \in 1..Len(reminders) : reminders[i].status = "INACTIVE"

\* C16: in waiting_for_exit a message of {ok, okay, fine, thanks, exit, no}
\* leaves a session in which the next turn is handled exactly as a turn met
\* in general (same outcome, same database, same session but for a stage the
\* turn does not assign); any other message leaves stage at waiting_for_exit.
C16_ExitWordReturnsToGeneralHandling ==
    conversation_state.stage = "waiting_for_exit" =>
    LET exit == { <<"o","k">>, <<"o","k","a","y">>, <<"f","i","n","e">>,
                  <<"t","h","a","n","k","s">>, <<"e","x","i","t">>, <<"n","o">> }
        heard == {t \in AllTurns(conversation_state.stage) :
                     user_message_of[t.query] \notin ResetWords}
        left == {Turn(t).cs : t \in {h \in heard : user_message_of[h.query] \in exit}}
    IN  /\ \A t \in heard :
              LET r == Turn(t)
              IN  /\ r.status = "reply"
                  /\ r.db = Database
                  /\ user_message_of[t.query] \notin exit =>
                        r.cs = conversation_state
        /\ \A cs \in left, n \in AllTurns("general") :
              LET a == chat_with_bot(cs, Database, n.current_user, n.query, n.env)
                  g == chat_with_bot(DictSet(cs, "stage", "general"), Database,
                                     n.current_user, n.query, n.env)
              IN  /\ a.status = g.status
                  /\ a.reply = g.reply
                  /\ a.intent = g.intent
                  /\ a.db = g.db
                  /\ DictPop(a.cs, "stage") = DictPop(g.cs, "stage")
                  /\ \/ a.cs.stage = g.cs.stage
                     \/ /\ a.cs.stage = cs.stage
                        /\ g.cs.stage = "general"

\* an exit word has been received and the next turn can list doctors
C16_ExitedAndListening ==
    /\ conversation_state.stage = "reset"
    /\ \E n \in AllTurns("general") :
          /\ n.env.intent.suggest_doctor
          /\ Turn(n).reply = "doctors_listed"

\* C17: book_appointment for a time slot whose status is not 'available'
\* fails with HTTP 400.
C17_UnavailableSlotIsBadRequest ==
    \A s \in DOMAIN time_slots, p \in Patients :
        time_slots[s].status # "available" =>
            LET r == book_appointment(Database,
                        [doctor_id |-> time_slots[s].doctor_id,
                         time_slot_id |-> s, patient_id |-> p,
                         appointment_date |-> today, is_active |-> TRUE],
                        "none")
            IN  /\ r.raised = "HTTPException"
                /\ r.status_code = 400

\* C18: get_reminders returns every reminder that is in the queue when it
\* starts, oldest first, and leaves the queue empty; over any sequence of
\* calls every reminder put in the queue is returned by exactly one call (no
\* reminder is lost, repeated or reordered).
C18_EveryReminderReturnedOnce ==
    /\ reminder_log.delivered \o get_reminders_call.reminders \o reminder_queue
          = [i \in 1..reminder_log.produced |-> i]
    /\ reminder_log.last # <<>> =>
          LET response == reminder_log.last[1]
          IN  /\ Len(response.at_start) <= Len(response.reminders)
              /\ SubSeq(response.reminders, 1, Len(response.at_start))
                    = response.at_start
              /\ response.left = <<>>

\* a second call has returned two reminders after a first call returned one
C18_TwoCallsReturned ==
    /\ reminder_log.last # <<>>
    /\ Len(reminder_log.last[1].reminders) = 2
    /\ Len(reminder_log.delivered) = 3

\* C19: a mark_appointment_as_inactive request by a doctor who does not own
\* the appointment, or for an appointment id that does not exist, ends in an
\* error and leaves every appointment and every time slot unchanged.
C19_OnlyOwnerMarksInactive ==
    \A current_user \in DoctorIds, appointment_id \in 1..(MaxAppointments + 1) :
        LET r == mark_appointment_as_inactive(Database, appointment_id, current_user)
        IN  (\/ appointment_id \notin 1..Len(appointments)
             \/ appointments[appointment_id].doctor_id # current_user) =>
                /\ r.raised # ""
                /\ r.db.appointments = appointments
                /\ r.db.time_slots = time_slots

\* an active appointment is protected from another doctor while its owner
\* has closed an earlier one
C19_ForeignRequestRefused ==
    \E i, j \in 1..Len(appointments) :
        /\ appointments[i].is_active
        /\ ~appointments[j].is_active
        /\ \E d \in DoctorIds :
              /\ d = appointments[j].doctor_id
              /\ d # appointments[i].doctor_id
              /\ mark_appointment_as_inactive(Database, i, d).raised # ""

\* C20: whenever an affirmative turn in activate_reminders removes a
\* prescription from the pending list and replies that it was processed, the
\* reminders of that prescription are activated and the prescription is
\* marked inactive in the prescription store.
C20_ProcessedMeansActivatedAndInactive ==
    (/\ conversation_state.stage = "activate_reminders"
     /\ HasKey(conversation_state, "prescriptions")
     /\ conversation_state.prescriptions # <<>>) =>
    \A t \in AllTurns(conversation_state.stage) :
        LET head == conversation_state.prescriptions[1].prescription_id
            r == Turn(t)
        IN  (/\ user_message_of[t.query] \in affirmative_responses
             /\ r.status = "reply"
             /\ r.reply \in {"activated_next", "activated_all_processed"}
             /\ r.cs.prescriptions = Tail(conversation_state.prescriptions)) =>
                /\ \A i \in 1..Len(r.db.reminders) :
                      r.db.reminders[i].prescription_id = head =>
                          r.db.reminders[i].status = "ACTIVE"
                /\ ~r.db.prescriptions[head].is_active

\* C21: in awaiting_doctor_selection, when the first candidate whose full
\* name is the message has no open slot and the slot lookups succeed, the
\* reply lists exactly the other candidates (those with another user_id) that
\* have at least one open slot, in the order of the candidate list, and says
\* that there is none when the list is empty; the turn selects no doctor and
\* leaves the session (stage, candidates, selected_doctor) and the database
\* as they were.
C21_NoSlotsListsOtherCandidates ==
    (conversation_state.stage = "awaiting_doctor_selection"
        /\ HasKey(conversation_state, "doctors")) =>
    \A t \in AllTurns(conversation_state.stage) :
        LET r == Turn(t)
            name == user_message_of[t.query]
            candidates == conversation_state.doctors
            named == {i \in 1..Len(candidates) :
                         lower(Doctor(candidates[i]).first_name) \o <<" ">>
                            \o lower(Doctor(candidates[i]).last_name) = name}
            first == CHOOSE i \in named : \A j \in named : i <= j
            open(d) == \E s \in DOMAIN time_slots :
                          /\ time_slots[s].doctor_id = d
                          /\ time_slots[s].status = "available"
            Other(d) == d # candidates[first] /\ open(d)
            expected == SelectSeq(candidates, Other)
        IN  (/\ name \notin ResetWords
             /\ t.env.fault = "none"
             /\ named # {}
             /\ ~open(candidates[first])) =>
            /\ r.status = "reply"
            /\ r.listed = expected
            /\ r.reply = IF expected = <<>> THEN "no_slots_no_doctors"
                         ELSE "no_slots_other_doctors"
            /\ r.cs = conversation_state
            /\ r.db = Database

\* C21 witness: a request names a candidate without open slots while two
\* other candidates have some
C21_TwoOthersListed ==
    /\ conversation_state.stage = "awaiting_doctor_selection"
    /\ \E t \in AllTurns(conversation_state.stage) :
          /\ Turn(t).reply = "no_slots_other_doctors"
          /\ Len(Turn(t).listed) = 2

\* C21, the empty case: a request names a candidate without open slots and
\* no other candidate has one
C21_NoOtherCandidate ==
    /\ conversation_state.stage = "awaiting_doctor_selection"
    /\ \E t \in AllTurns(conversation_state.stage) :
          Turn(t).reply = "no_slots_no_doctors"

\* C22: in activate_reminders with a pending prescription, on an affirmative
\* answer whose activation fails with an HTTP error, the turn answers with
\* the apology for that prescription and sets stage to "general"; the
\* prescription is not marked inactive, no reminder is changed, and the
\* pending list keeps the prescription at its head.
C22_ActivationErrorKeepsPrescription ==
    (/\ conversation_state.stage = "activate_reminders"
     /\ HasKey(conversation_state, "prescriptions")
     /\ conversation_state.prescriptions # <<>>) =>
    \A t \in AllTurns(conversation_state.stage) :
        LET r == Turn(t)
        IN  (/\ lower(user_message_of[t.query]) \in
                    { <<"y","e","s">>, <<"y","e","a","h">>, <<"y","u","p">>,
                      <<"s","u","r","e">>, <<"o","k">>,
                      <<"a","l","r","i","g","h","t">>,
                      <<"g","o"," ","a","h","e","a","d">> }
             /\ t.env.fault = "activate_reminders") =>
            /\ r.status = "reply"
            /\ r.reply = "activation_issue"
            /\ r.cs.stage = "general"
            /\ r.cs.prescriptions = conversation_state.prescriptions
            /\ r.db.prescriptions = prescriptions
            /\ r.db.reminders = reminders

\* C22 witness: an affirmative answer to a pending prescription meets the
\* activation error
C22_ActivationFailed ==
    /\ conversation_state.stage = "activate_reminders"
    /\ \E t \in AllTurns(conversation_state.stage) :
          /\ Turn(t).reply = "activation_issue"
          /\ Len(Turn(t).cs.prescriptions) = 2

\* C23: book_appointment writes the appointment and the slot status in two
\* committed steps and takes nothing back: when the slot update fails after
\* the appointment was created, the call ends with an error, the appointment
\* row is in the table, the slot is still 'available', and a second call for
\* the same slot succeeds and adds a second appointment.
C23_FailedSlotUpdateKeepsAppointment ==
    \A patient_id \in Patients, time_slot_id \in DOMAIN time_slots :
        LET appointment_data ==
                [doctor_id |-> time_slots[time_slot_id].doctor_id,
                 time_slot_id |-> time_slot_id, patient_id |-> patient_id,
                 appointment_date |-> today, is_active |-> TRUE]
            r == book_appointment(Database, appointment_data, "update_time_slot")
            again == book_appointment(r.db, appointment_data, "none")
            n == Len(appointments)
        IN  time_slots[time_slot_id].status = "available" =>
            /\ r.raised = "HTTPException"
            /\ r.status_code = 500
            /\ Len(r.db.appointments) = n + 1
            /\ SubSeq(r.db.appointments, 1, n) = appointments
            /\ r.db.appointments[n + 1].patient_id = patient_id
            /\ r.db.appointments[n + 1].doctor_id = appointment_data.doctor_id
            /\ r.db.appointments[n + 1].is_active
            /\ r.db.time_slots = time_slots
            /\ again.raised = ""
            /\ Len(again.db.appointments) = n + 2
            /\ again.db.time_slots[time_slot_id].status = "booked"

\* C23 witness: two appointments with d2, whose only slot is still offered
C23_AppointmentsOnOpenSlot ==
    /\ Len(appointments) = 2
    /\ \A i \in 1..2 : appointments[i].doctor_id = "d2"
    /\ time_slots[3].status = "available"

C29_StageHasItsFields ==
    /\ conversation_state.stage = "awaiting_doctor_selection" =>
          /\ "doctors" \in DOMAIN conversation_state
          /\ conversation_state.doctors # <<>>
    /\ conversation_state.stage = "awaiting_slot_selection" =>
          /\ "doctors" \in DOMAIN conversation_state
          /\ "selected_doctor" \in DOMAIN conversation_state
          /\ \E i \in 1..Len(conversation_state.doctors) :
                conversation_state.doctors[i] = conversation_state.selected_doctor
    /\ conversation_state.stage = "activate_reminders" =>
          /\ "prescriptions" \in DOMAIN conversation_state
          /\ conversation_state.prescriptions # <<>>
    /\ \A t \in AllTurns(conversation_state.stage) :
          LET r == Turn(t)
          IN  r.exception # "KeyError" /\ r.reply # "already_activated"

\* C29 witness: after a booking, the session is in activate_reminders with
\* one prescription processed and one left
C29_OneLeftAfterBooking ==
    /\ conversation_state.stage = "activate_reminders"
    /\ "selected_doctor" \in DOMAIN conversation_state
    /\ Len(conversation_state.prescriptions) = 1
    /\ \E i \in 1..Len(prescriptions) : ~prescriptions[i].is_active

\* C26: for every request and every reachable session, the turn ends, and
\* ends as a reply or as the failure of the top-level handler; the handler
\* is invoked inside a turn at most once (the check_prescriptions hand-off),
\* and a turn that starts in check_inactive_appointments invokes it never.
C26_TurnEndsWithinOneNestedCall ==
    \A t \in AllTurns(conversation_state.stage) :
        LET r == Turn(t)
        IN  /\ r.status \in {"reply", "failure"}
            /\ r.nested \in {0, 1}
            /\ r.nested = 1 => r.intent = "check_prescriptions"
            /\ conversation_state.stage = "check_inactive_appointments" =>
                  r.nested = 0

\* C26 witness: after a booking, a request is classified check_prescriptions
\* and the handler calls itself
C26_HandOffNested ==
    /\ conversation_state.stage = "general"
    /\ "selected_doctor" \in DOMAIN conversation_state
    /\ \E t \in AllTurns(conversation_state.stage) :
          /\ Turn(t).nested = 1
          /\ Turn(t).status = "failure"

\* C27: however the calls of book_appointment on one time slot interleave at
\* their awaits, at most one of them creates an appointment for that slot.
C27_OneAppointmentPerSlot ==
    \A time_slot_id \in DOMAIN time_slots :
        Cardinality({c \in BookCalls :
                        /\ book_calls[c].created # 0
                        /\ book_calls[c].time_slot_id = time_slot_id}) <= 1

\* C25: turns are serialised: when a turn that was suspended at
\* get_available_time_slots resumes, every session field that a turn
\* completed in the meantime has changed (assigned, added or removed since
\* the suspended turn read the session) is left as that turn left it.
C25_SuspendedTurnOverwritesNothing ==
    [][\A c \in ChatCalls :
          (chat_calls[c].pc = "get_available_time_slots"
              /\ chat_calls'[c].pc = "idle") =>
          \A k \in {"stage", "doctors", "selected_doctor", "prescriptions"} :
              LET field(cs) == IF k \in DOMAIN cs THEN <<cs[k]>> ELSE <<>>
              IN  field(chat_calls[c].seen) # field(conversation_state) =>
                     field(conversation_state') = field(conversation_state)]_vars

\* C28: however affirmative turns interleave in activate_reminders, the turn
\* that removes a prescription from the pending list removes the one whose
\* reminders it activated, and finds the list non-empty.
C28_PoppedIsActivated ==
    [][\A c \in ChatCalls :
          (chat_calls[c].pc = "mark_prescription_inactive"
              /\ chat_calls'[c].pc = "idle") =>
          /\ conversation_state.prescriptions # <<>>
          /\ conversation_state.prescriptions[1].prescription_id =
                chat_calls[c].prescription_id]_vars

\* C30: in awaiting_slot_selection, the slot a turn books for the number n
\* is the slot the preceding doctor-selection reply listed as number n, also
\* when the doctor's open slots have changed since that reply.
C30_BookedSlotIsTheDisplayedOne ==
    (/\ conversation_state.stage = "awaiting_slot_selection"
     /\ HasKey(conversation_state, "selected_doctor")) =>
    \A t \in AllTurns(conversation_state.stage) :
        LET parsed == int(user_message_of[t.query])
            r == Turn(t)
        IN  (t.env.fault = "none" /\ r.reply = "booked") =>
            /\ parsed.value \in 1..Len(displayed)
            /\ r.db.time_slots[displayed[parsed.value]].status = "booked"
            /\ time_slots[displayed[parsed.value]].status = "available"

====
